---- MODULE Spec2Model ----
(***************************************************************************)
(* Duplicate detection tools of biometal-qc-tools:                         *)
(*   src/bin/pcr_dedup.rs      (content duplicates, Jaccard on minimizers) *)
(*   src/bin/optical_dedup.rs  (positional duplicates)                     *)
(* and the poly-G tail trimmer src/bin/polyg_trim.rs.                      *)
(*                                                                         *)
(* One run of a tool is a state machine: main parses and validates the     *)
(* arguments, process_*_duplicates reads the record stream, clusters,      *)
(* selects representatives, writes the filtered output, and main writes    *)
(* the statistics file.                                                    *)
(*                                                                         *)
(* Indices are 0-based as in the Rust code; the record with index i is     *)
(* element i + 1 of a TLA+ sequence.                                       *)
(*                                                                         *)
(* f64 values are modelled as exact rationals num/den (den > 0) or NaN.    *)
(* Every f64 the model compares is either parsed from a short decimal or   *)
(* the quotient of two small integers, for which the correctly rounded f64 *)
(* comparison agrees with the exact one.                                   *)
(***************************************************************************)
EXTENDS Integers, Sequences, FiniteSets, TLC

\* Largest number of records the input stream yields.
MaxReads == 3

\* Largest number of records of a batch handed to clustering and selection.
MaxBatch == 4

\* Largest number of minimizers of a record of the pair specification.
MaxHashes == 3

\* Largest number of records of a batch clustered one loop step at a time.
MaxScan == 3

\* Largest number of bases of a read given to the poly-G trimmer, and the
\* largest number of reads of its input stream.
MaxSeqLen == 3
MaxTrimReads == 1

\* std::cmp::min(1000, n_records): the anchor batch size cap.
BatchCap == 1000

\* Encoding offset subtracted from every quality byte.
QualityOffset == 33

U8  == 256

Min(a, b) == IF a < b THEN a ELSE b

RECURSIVE SumSeq(_)
SumSeq(s) == IF s = <<>> THEN 0 ELSE Head(s) + SumSeq(Tail(s))

Range(s) == { s[k] : k \in 1..Len(s) }

RECURSIVE Flatten(_)
Flatten(ss) == IF ss = <<>> THEN <<>> ELSE Head(ss) \o Flatten(Tail(ss))

----------------------------------------------------------------------------
(* f64 *)

F64(n, d) == [ok |-> TRUE, nan |-> FALSE, num |-> n, den |-> d]
NaN       == [ok |-> TRUE, nan |-> TRUE,  num |-> 0, den |-> 1]
ParseErr  == [ok |-> FALSE, nan |-> FALSE, num |-> 0, den |-> 1]

\* IEEE comparisons: every comparison with NaN is false.
FLt(a, b) == ~a.nan /\ ~b.nan /\ a.num * b.den < b.num * a.den
FGt(a, b) == FLt(b, a)
FGe(a, b) == ~a.nan /\ ~b.nan /\ a.num * b.den >= b.num * a.den

\* str::parse::<f64>() on the texts the model passes as --threshold.
ParseF64(s) ==
    CASE s = "-0.1" -> F64(-1, 10)
      [] s = "0.0"  -> F64(0, 1)
      [] s = "0.5"  -> F64(1, 2)
      [] s = "1.0"  -> F64(1, 1)
      [] s = "1.1"  -> F64(11, 10)
      [] s = "NaN"  -> NaN
      [] OTHER      -> ParseErr

\* The --threshold texts a run of the given tool is started with.
ArgThresholds(t) ==
    IF t = "pcr"
    THEN {"-0.1", "0.0", "0.5", "1.0", "1.1", "NaN", "abc"}
    ELSE {"-0.1", "0.0", "1.0", "abc"}

----------------------------------------------------------------------------
(* Records.  A FastqRecord is {id, sequence, quality}.  The id is          *)
(* represented by what parse_illumina_coordinates returns for it, the      *)
(* sequence by what extract_minimizers_fast returns for it (both external  *)
(* biometal primitives): an error, or a coordinate / a list of minimizer   *)
(* hashes.  quality is the list of raw quality bytes.                      *)

Coord(l, t, x, y) == [ok |-> TRUE, lane |-> l, tile |-> t, x |-> x, y |-> y]
CoordErr          == [ok |-> FALSE, lane |-> 0, tile |-> 0, x |-> 0, y |-> 0]

Mins(h)  == [ok |-> TRUE, hashes |-> h]
MinsErr  == [ok |-> FALSE, hashes |-> <<>>]

Ids        == { CoordErr, Coord(1, 1, 0, 0), Coord(1, 1, 1, 0) }
Sequences_ == { MinsErr, Mins(<<1, 2>>), Mins(<<1, 2, 3>>), Mins(<<2, 3>>) }
Qualities  == { <<63>>, <<68, 68>>, <<20>> }

\* The records a stream of the given tool can yield: the field the tool
\* does not look at is held fixed.
RecordsOf(t) ==
    IF t = "pcr"
    THEN [id : {CoordErr}, sequence : Sequences_, quality : Qualities]
    ELSE [id : Ids, sequence : {MinsErr}, quality : Qualities]

----------------------------------------------------------------------------
(* pcr_dedup.rs: similarity and clustering *)

\* calculate_jaccard_similarity dividing by |set1| + |set2| instead of the
\* size of the union.
calculate_jaccard_similarity_SumSizes(minimizers1, minimizers2) ==
    IF minimizers1 = <<>> \/ minimizers2 = <<>>
    THEN F64(0, 1)
    ELSE LET set1 == Range(minimizers1)
             set2 == Range(minimizers2)
         IN  F64(Cardinality(set1 \cap set2), Cardinality(set1) + Cardinality(set2))

\* calculate_jaccard_similarity counting list elements instead of distinct
\* hash values (no conversion to HashSet).
calculate_jaccard_similarity_Multiset(minimizers1, minimizers2) ==
    IF minimizers1 = <<>> \/ minimizers2 = <<>>
    THEN F64(0, 1)
    ELSE LET intersection_size ==
                 Cardinality({ k \in 1..Len(minimizers1) :
                                 \E m \in 1..Len(minimizers2) :
                                    minimizers1[k] = minimizers2[m] })
             union_size == Len(minimizers1) + Len(minimizers2) - intersection_size
         IN  IF union_size = 0 THEN F64(0, 1)
             ELSE F64(intersection_size, union_size)

\* calculate_jaccard_similarity
calculate_jaccard_similarity(minimizers1, minimizers2) ==
    IF minimizers1 = <<>> \/ minimizers2 = <<>>
    THEN F64(0, 1)
    ELSE LET set1 == Range(minimizers1)
             set2 == Range(minimizers2)
             intersection_size == Cardinality(set1 \cap set2)
             union_size == Cardinality(set1 \cup set2)
         IN  IF union_size = 0 THEN F64(0, 1)
             ELSE F64(intersection_size, union_size)

\* ScanSubsequent without `if assigned.contains(&j) { continue; }`.
RECURSIVE ScanSubsequent_NoSkip(_, _, _, _, _)
ScanSubsequent_NoSkip(sigs, threshold, i, j, st) ==
    IF j >= Len(sigs) THEN st
    ELSE LET similarity == calculate_jaccard_similarity(sigs[i + 1], sigs[j + 1])
         IN  IF FGe(similarity, threshold)
             THEN ScanSubsequent_NoSkip(sigs, threshold, i, j + 1,
                      [cluster  |-> Append(st.cluster, j),
                       assigned |-> st.assigned \cup {j}])
             ELSE ScanSubsequent_NoSkip(sigs, threshold, i, j + 1, st)

\* ScanSubsequent with the exclusive comparison `similarity > threshold`.
RECURSIVE ScanSubsequent_Strict(_, _, _, _, _)
ScanSubsequent_Strict(sigs, threshold, i, j, st) ==
    IF j >= Len(sigs) THEN st
    ELSE IF j \in st.assigned
         THEN ScanSubsequent_Strict(sigs, threshold, i, j + 1, st)
         ELSE LET similarity == calculate_jaccard_similarity(sigs[i + 1], sigs[j + 1])
              IN  IF FGt(similarity, threshold)
                  THEN ScanSubsequent_Strict(sigs, threshold, i, j + 1,
                           [cluster  |-> Append(st.cluster, j),
                            assigned |-> st.assigned \cup {j}])
                  ELSE ScanSubsequent_Strict(sigs, threshold, i, j + 1, st)

\* ScanSubsequent comparing j with the member admitted last instead of the
\* anchor i (chained grouping).
RECURSIVE ScanSubsequent_Chained(_, _, _, _, _)
ScanSubsequent_Chained(sigs, threshold, i, j, st) ==
    IF j >= Len(sigs) THEN st
    ELSE IF j \in st.assigned
         THEN ScanSubsequent_Chained(sigs, threshold, i, j + 1, st)
         ELSE LET last == st.cluster[Len(st.cluster)]
                  similarity == calculate_jaccard_similarity(sigs[last + 1], sigs[j + 1])
              IN  IF FGe(similarity, threshold)
                  THEN ScanSubsequent_Chained(sigs, threshold, i, j + 1,
                           [cluster  |-> Append(st.cluster, j),
                            assigned |-> st.assigned \cup {j}])
                  ELSE ScanSubsequent_Chained(sigs, threshold, i, j + 1, st)

\* The loop `for j in (i + 1)..n_records` of find_pcr_duplicates, from j on.
\* st = [cluster, assigned].
RECURSIVE ScanSubsequent(_, _, _, _, _)
ScanSubsequent(sigs, threshold, i, j, st) ==
    IF j >= Len(sigs) THEN st
    ELSE IF j \in st.assigned
         THEN ScanSubsequent(sigs, threshold, i, j + 1, st)
         ELSE LET similarity == calculate_jaccard_similarity(sigs[i + 1], sigs[j + 1])
              IN  IF FGe(similarity, threshold)
                  THEN ScanSubsequent(sigs, threshold, i, j + 1,
                           [cluster  |-> Append(st.cluster, j),
                            assigned |-> st.assigned \cup {j}])
                  ELSE ScanSubsequent(sigs, threshold, i, j + 1, st)

\* AnchorStep without `if assigned.contains(&i) { continue; }`.
AnchorStep_NoSkip(sigs, threshold, i, acc) ==
    LET st == ScanSubsequent(sigs, threshold, i, i + 1,
                  [cluster |-> <<i>>, assigned |-> acc.assigned \cup {i}])
    IN  [clusters |-> IF Len(st.cluster) > 1
                      THEN Append(acc.clusters, st.cluster)
                      ELSE acc.clusters,
         assigned |-> st.assigned]

\* One iteration of `for i in batch_start..batch_end`.
\* acc = [clusters, assigned].
AnchorStep(sigs, threshold, i, acc) ==
    IF i \in acc.assigned THEN acc
    ELSE LET st == ScanSubsequent(sigs, threshold, i, i + 1,
                       [cluster |-> <<i>>, assigned |-> acc.assigned \cup {i}])
         IN  [clusters |-> IF Len(st.cluster) > 1
                           THEN Append(acc.clusters, st.cluster)
                           ELSE acc.clusters,
              assigned |-> st.assigned]

\* `for i in batch_start..batch_end`, from i on.
RECURSIVE BatchLoop(_, _, _, _, _)
BatchLoop(sigs, threshold, i, batch_end, acc) ==
    IF i >= batch_end THEN acc
    ELSE BatchLoop(sigs, threshold, i + 1, batch_end,
                   AnchorStep(sigs, threshold, i, acc))

\* `for batch_start in (0..n_records).step_by(batch_size)`, from batch_start on.
RECURSIVE StepByLoop(_, _, _, _, _)
StepByLoop(sigs, threshold, batch_size, batch_start, acc) ==
    IF batch_start >= Len(sigs) THEN acc
    ELSE LET batch_end == Min(batch_start + batch_size, Len(sigs))
         IN  StepByLoop(sigs, threshold, batch_size, batch_start + batch_size,
                        BatchLoop(sigs, threshold, batch_start, batch_end, acc))

\* find_pcr_duplicates.  Iterator::step_by panics when the step is 0, which
\* is the case exactly for an empty record list.
find_pcr_duplicates(sigs, threshold) ==
    LET n_records  == Len(sigs)
        batch_size == Min(BatchCap, n_records)
    IN  IF batch_size = 0
        THEN [panic |-> TRUE, clusters |-> <<>>]
        ELSE [panic |-> FALSE,
              clusters |-> StepByLoop(sigs, threshold, batch_size, 0,
                               [clusters |-> <<>>, assigned |-> {}]).clusters]

----------------------------------------------------------------------------
(* Representative selection (identical code in pcr_dedup.rs and            *)
(* optical_dedup.rs).                                                      *)
(*                                                                         *)
(* `q - 33` is u8 arithmetic.  With overflow checks (debug profile) an     *)
(* overflow panics; without them (release profile) it wraps.  checks says  *)
(* which build runs.  The u32 sum of the decoded bytes is at most          *)
(* 255 * length, which stays below 2^32 for every quality length of the    *)
(* model, so the sum is exact.                                             *)

\* (q - 33) as u32
DecodeByte(q) == (q - QualityOffset) % U8

\* calculate_mean_quality
calculate_mean_quality(record, checks) ==
    LET qualities == record.quality
        decoded   == [k \in 1..Len(qualities) |-> DecodeByte(qualities[k])]
        underflow == \E k \in 1..Len(qualities) : qualities[k] < QualityOffset
    IN  IF qualities = <<>>
        THEN [panic |-> FALSE, val |-> F64(0, 1)]
        ELSE IF checks /\ underflow
             THEN [panic |-> TRUE, val |-> F64(0, 1)]
             ELSE [panic |-> FALSE,
                   val |-> F64(SumSeq(decoded), Len(qualities))]

\* The loop `for &idx in &cluster[1..]` of select_best_quality_read, from
\* position k of the cluster on.  best = [panic, idx, quality].
RECURSIVE BestLoop(_, _, _, _, _)
BestLoop(cluster, records, checks, k, best) ==
    IF best.panic \/ k > Len(cluster) THEN best
    ELSE LET idx == cluster[k]
             q   == calculate_mean_quality(records[idx + 1].record, checks)
         IN  IF q.panic
             THEN [best EXCEPT !.panic = TRUE]
             ELSE IF FGt(q.val, best.quality)
                  THEN BestLoop(cluster, records, checks, k + 1,
                           [panic |-> FALSE, idx |-> idx, quality |-> q.val])
                  ELSE BestLoop(cluster, records, checks, k + 1, best)

\* select_best_quality_read returning the position of the best read within
\* the cluster instead of its record index.
select_best_quality_read_Position(cluster, records, checks) ==
    LET first == calculate_mean_quality(records[cluster[1] + 1].record, checks)
        best  == BestLoop(cluster, records, checks, 2,
                     [panic |-> FALSE, idx |-> cluster[1], quality |-> first.val])
    IN  [panic |-> first.panic \/ best.panic,
         idx   |-> (CHOOSE k \in 1..Len(cluster) : cluster[k] = best.idx) - 1]

\* select_best_quality_read
select_best_quality_read(cluster, records, checks) ==
    LET first == calculate_mean_quality(records[cluster[1] + 1].record, checks)
    IN  IF first.panic
        THEN [panic |-> TRUE, idx |-> cluster[1]]
        ELSE LET best == BestLoop(cluster, records, checks, 2,
                             [panic |-> FALSE, idx |-> cluster[1],
                              quality |-> first.val])
             IN  [panic |-> best.panic, idx |-> best.idx]

\* Representative with the first-occurrence policy taking the last member
\* of the cluster instead of cluster[0].
Representative_Last(cluster, records, keep_best, checks) ==
    IF keep_best
    THEN select_best_quality_read(cluster, records, checks)
    ELSE [panic |-> FALSE, idx |-> cluster[Len(cluster)]]

\* `let representative = if keep_best_quality { ... } else { cluster[0] }`
Representative(cluster, records, keep_best, checks) ==
    IF keep_best
    THEN select_best_quality_read(cluster, records, checks)
    ELSE [panic |-> FALSE, idx |-> cluster[1]]

\* MarkDuplicates without `if idx != representative`.
MarkDuplicates_All(cluster, representative) == Range(cluster)

\* `for &idx in cluster { if idx != representative { insert(idx) } }`
MarkDuplicates(cluster, representative) ==
    { idx \in Range(cluster) : idx # representative }

\* The loop `for cluster in &duplicate_clusters` of step 3, from cluster k
\* on.  acc = [panic, duplicate_indices, cluster_sizes, representatives];
\* representatives records the `representative` chosen for cluster k.
RECURSIVE SelectLoop(_, _, _, _, _, _)
SelectLoop(clusters, records, keep_best, checks, k, acc) ==
    IF acc.panic \/ k > Len(clusters) THEN acc
    ELSE LET cluster == clusters[k]
             sizes   == Append(acc.cluster_sizes, Len(cluster))
         IN  IF Len(cluster) > 1
             THEN LET rep == Representative(cluster, records, keep_best, checks)
                  IN  IF rep.panic
                      THEN [acc EXCEPT !.panic = TRUE]
                      ELSE SelectLoop(clusters, records, keep_best, checks, k + 1,
                               [panic |-> FALSE,
                                duplicate_indices |-> acc.duplicate_indices
                                    \cup MarkDuplicates(cluster, rep.idx),
                                cluster_sizes |-> sizes,
                                representatives |-> acc.representatives
                                    \cup {[cluster |-> k, idx |-> rep.idx]}])
             ELSE SelectLoop(clusters, records, keep_best, checks, k + 1,
                      [acc EXCEPT !.cluster_sizes = sizes])

SelectAll(clusters, records, keep_best, checks) ==
    SelectLoop(clusters, records, keep_best, checks, 1,
        [panic |-> FALSE, duplicate_indices |-> {}, cluster_sizes |-> <<>>,
         representatives |-> {}])

----------------------------------------------------------------------------
(* optical_dedup.rs: fingerprints and the external clustering primitive *)

\* create_default_coordinate: the fields the positional metric looks at.
create_default_coordinate == [lane |-> 0, tile |-> 0, x |-> 0, y |-> 0]

\* `match parse_illumina_coordinates(&record.id)` of the read loop.
CoordinateOf(record) ==
    IF record.id.ok
    THEN [lane |-> record.id.lane, tile |-> record.id.tile,
          x |-> record.id.x, y |-> record.id.y]
    ELSE create_default_coordinate

\* `match extract_minimizers_fast(&record.sequence, ..)` of the read loop.
SignatureOf(record) ==
    IF record.sequence.ok THEN record.sequence.hashes ELSE <<>>

\* Positional metric of the external primitive: same lane and tile, and
\* Euclidean distance on (x, y) within the threshold.
Proximate(a, b, threshold) ==
    /\ ~threshold.nan
    /\ threshold.num >= 0
    /\ a.lane = b.lane /\ a.tile = b.tile
    /\ ((a.x - b.x) * (a.x - b.x) + (a.y - b.y) * (a.y - b.y))
           * threshold.den * threshold.den <= threshold.num * threshold.num

RECURSIVE OpticalScan(_, _, _, _, _)
OpticalScan(coords, threshold, i, j, st) ==
    IF j >= Len(coords) THEN st
    ELSE IF j \notin st.assigned /\ Proximate(coords[i + 1], coords[j + 1], threshold)
         THEN OpticalScan(coords, threshold, i, j + 1,
                  [cluster  |-> Append(st.cluster, j),
                   assigned |-> st.assigned \cup {j}])
         ELSE OpticalScan(coords, threshold, i, j + 1, st)

RECURSIVE OpticalLoop(_, _, _, _)
OpticalLoop(coords, threshold, i, acc) ==
    IF i >= Len(coords) THEN acc
    ELSE IF i \in acc.assigned
         THEN OpticalLoop(coords, threshold, i + 1, acc)
         ELSE LET st == OpticalScan(coords, threshold, i, i + 1,
                            [cluster |-> <<i>>, assigned |-> acc.assigned \cup {i}])
              IN  OpticalLoop(coords, threshold, i + 1,
                      [clusters |-> IF Len(st.cluster) > 1
                                    THEN Append(acc.clusters, st.cluster)
                                    ELSE acc.clusters,
                       assigned |-> st.assigned])

\* biometal::operations::spatial::find_optical_duplicates: groups of
\* proximate coordinates, anchor first.
find_optical_duplicates(coords, threshold) ==
    OpticalLoop(coords, threshold, 0, [clusters |-> <<>>, assigned |-> {}]).clusters

----------------------------------------------------------------------------
(* One run of a tool *)

VARIABLES
    tool,                     \* "pcr" or "optical": which binary runs
    pc,                       \* position of the run
    arg_threshold,            \* text of --threshold
    keep_best_quality,        \* --keep-best-quality
    threshold,                \* parsed threshold
    stream_read,              \* records the input stream has yielded so far
    records_with_signatures,  \* Vec<(record, fingerprint)> (records_with_coords)
    total_reads,
    duplicate_clusters,       \* result of clustering (duplicate_groups)
    duplicate_indices,        \* removal set
    cluster_sizes,
    representatives,          \* the representative chosen for each cluster
    output_created,           \* FastqWriter::create has created the output file
    write_pos,                \* next index of the output loop
    output,                   \* records written to the output file
    unique_reads_kept,
    stats_file,               \* content of the statistics file, <<>> if none
    scan,                     \* loop state of find_pcr_duplicates run step by step
    trimmer                   \* state of a polyg_trim run

vars == << tool, pc, arg_threshold, keep_best_quality, threshold, stream_read,
           records_with_signatures, total_reads, duplicate_clusters,
           duplicate_indices, cluster_sizes, representatives, output_created,
           write_pos, output, unique_reads_kept, stats_file, scan, trimmer >>

\* scan outside a stepwise run of find_pcr_duplicates.
NoScan == [phase |-> "none"]

\* trimmer outside a polyg_trim run.
NoTrimmer == [phase |-> "none"]

Tools == {"pcr", "optical"}

Init ==
    /\ tool \in Tools
    /\ pc = "start"
    /\ arg_threshold \in ArgThresholds(tool)
    /\ keep_best_quality \in BOOLEAN
    /\ threshold = ParseErr
    /\ stream_read = <<>>
    /\ records_with_signatures = <<>>
    /\ total_reads = 0
    /\ duplicate_clusters = <<>>
    /\ duplicate_indices = {}
    /\ cluster_sizes = <<>>
    /\ representatives = {}
    /\ output_created = FALSE
    /\ write_pos = 0
    /\ output = <<>>
    /\ unique_reads_kept = 0
    /\ stats_file = <<>>
    /\ scan = NoScan
    /\ trimmer = NoTrimmer

\* main: `let threshold: f64 = ....parse()?;`
ParseArgs ==
    /\ pc = "start"
    /\ threshold' = ParseF64(arg_threshold)
    /\ pc' = IF ~threshold'.ok THEN "err_parse"
             ELSE IF tool = "pcr" THEN "validate" ELSE "reading"
    /\ UNCHANGED << scan, trimmer, tool, arg_threshold, keep_best_quality, stream_read,
                    records_with_signatures, total_reads, duplicate_clusters,
                    duplicate_indices, cluster_sizes, representatives, output_created,
                    write_pos, output, unique_reads_kept, stats_file >>

\* pcr_dedup main: `if threshold < 0.0 || threshold > 1.0 { return Err(..) }`
ThresholdRejected(t) == FLt(t, F64(0, 1)) \/ FGt(t, F64(1, 1))

ValidateThreshold ==
    /\ pc = "validate"
    /\ pc' = IF ThresholdRejected(threshold) THEN "err_threshold" ELSE "reading"
    /\ UNCHANGED << scan, trimmer, tool, arg_threshold, keep_best_quality, threshold,
                    stream_read, records_with_signatures, total_reads,
                    duplicate_clusters, duplicate_indices, cluster_sizes, representatives,
                    output_created, write_pos, output, unique_reads_kept,
                    stats_file >>

\* The fingerprint the read loop pairs with a record.
FingerprintOf(t, record) ==
    IF t = "pcr" THEN SignatureOf(record) ELSE CoordinateOf(record)

\* ReadRecord skipping a record whose fingerprint extraction fails instead
\* of pushing it with an empty / default fingerprint.
ReadRecord_DropFailed ==
    /\ pc = "reading"
    /\ Len(stream_read) < MaxReads
    /\ \E record \in RecordsOf(tool) :
        /\ stream_read' = Append(stream_read, record)
        /\ total_reads' = total_reads + 1
        /\ records_with_signatures' =
               IF (tool = "pcr" /\ ~record.sequence.ok) \/ (tool # "pcr" /\ ~record.id.ok)
               THEN records_with_signatures
               ELSE Append(records_with_signatures,
                           [record |-> record, sig |-> FingerprintOf(tool, record)])
    /\ UNCHANGED << scan, trimmer, tool, pc, arg_threshold, keep_best_quality, threshold,
                    duplicate_clusters, duplicate_indices, cluster_sizes, representatives,
                    output_created, write_pos, output, unique_reads_kept,
                    stats_file >>

\* One iteration of `for record_result in fastq_stream` with an Ok record.
ReadRecord ==
    /\ pc = "reading"
    /\ Len(stream_read) < MaxReads
    /\ \E record \in RecordsOf(tool) :
        /\ stream_read' = Append(stream_read, record)
        /\ total_reads' = total_reads + 1
        /\ records_with_signatures' =
               Append(records_with_signatures,
                      [record |-> record, sig |-> FingerprintOf(tool, record)])
    /\ UNCHANGED << scan, trimmer, tool, pc, arg_threshold, keep_best_quality, threshold,
                    duplicate_clusters, duplicate_indices, cluster_sizes, representatives,
                    output_created, write_pos, output, unique_reads_kept,
                    stats_file >>

\* FastqStream::from_path fails or the stream yields an Err: `?` returns.
ReadFails ==
    /\ pc = "reading"
    /\ pc' = "err_io"
    /\ UNCHANGED << scan, trimmer, tool, arg_threshold, keep_best_quality, threshold,
                    stream_read, records_with_signatures, total_reads,
                    duplicate_clusters, duplicate_indices, cluster_sizes, representatives,
                    output_created, write_pos, output, unique_reads_kept,
                    stats_file >>

\* The stream is exhausted.
ReadEnd ==
    /\ pc = "reading"
    /\ pc' = "clustering"
    /\ UNCHANGED << scan, trimmer, tool, arg_threshold, keep_best_quality, threshold,
                    stream_read, records_with_signatures, total_reads,
                    duplicate_clusters, duplicate_indices, cluster_sizes, representatives,
                    output_created, write_pos, output, unique_reads_kept,
                    stats_file >>

Signatures(records) == [k \in 1..Len(records) |-> records[k].sig]

\* pcr_dedup step 2: `find_pcr_duplicates(&records_with_signatures, threshold)?`
ClusterPcr ==
    /\ pc = "clustering"
    /\ tool = "pcr"
    /\ LET r == find_pcr_duplicates(Signatures(records_with_signatures), threshold)
       IN  /\ pc' = IF r.panic THEN "panicked" ELSE "selecting"
           /\ duplicate_clusters' = r.clusters
    /\ UNCHANGED << scan, trimmer, tool, arg_threshold, keep_best_quality, threshold,
                    stream_read, records_with_signatures, total_reads,
                    duplicate_indices, cluster_sizes, representatives, output_created,
                    write_pos, output, unique_reads_kept, stats_file >>

\* The domain of the positional metric: a non-negative distance bound.
InOpticalDomain(t) == ~t.nan /\ t.num >= 0

\* optical_dedup steps 2-3: `find_optical_duplicates(coordinates, threshold)?`.
\* What the external primitive does with a threshold outside its domain is
\* not fixed: it returns an error or it returns the groups.
ClusterOptical ==
    /\ pc = "clustering"
    /\ tool = "optical"
    /\ \E err \in IF InOpticalDomain(threshold) THEN {FALSE} ELSE BOOLEAN :
        /\ pc' = IF err THEN "err_cluster" ELSE "selecting"
        /\ duplicate_clusters' =
               IF err THEN <<>>
               ELSE find_optical_duplicates(Signatures(records_with_signatures),
                                            threshold)
    /\ UNCHANGED << scan, trimmer, tool, arg_threshold, keep_best_quality, threshold,
                    stream_read, records_with_signatures, total_reads,
                    duplicate_indices, cluster_sizes, representatives, output_created,
                    write_pos, output, unique_reads_kept, stats_file >>

\* Some quality byte that selection decodes overflows `q - 33`.
SelectionOverflows ==
    /\ keep_best_quality
    /\ \E k \in 1..Len(duplicate_clusters) :
         \E idx \in Range(duplicate_clusters[k]) :
           calculate_mean_quality(records_with_signatures[idx + 1].record, TRUE).panic

\* Select shortening the record list to the number of kept records
\* (`records_with_signatures.truncate(..)`) once the removal set is known.
Select_Retain ==
    /\ pc = "selecting"
    /\ \E checks \in IF SelectionOverflows THEN BOOLEAN ELSE {FALSE} :
         LET r == SelectAll(duplicate_clusters, records_with_signatures,
                            keep_best_quality, checks)
             keep == { k \in 1..Len(records_with_signatures) :
                         r.panic \/ (k - 1) \notin r.duplicate_indices }
         IN  /\ pc' = IF r.panic THEN "panicked" ELSE "create_output"
             /\ duplicate_indices' = IF r.panic THEN {} ELSE r.duplicate_indices
             /\ cluster_sizes' = IF r.panic THEN <<>> ELSE r.cluster_sizes
             /\ representatives' = IF r.panic THEN {} ELSE r.representatives
             /\ records_with_signatures' =
                    SubSeq(records_with_signatures, 1, Cardinality(keep))
    /\ UNCHANGED << scan, trimmer, tool, arg_threshold, keep_best_quality, threshold,
                    stream_read, total_reads, duplicate_clusters,
                    output_created, write_pos, output, unique_reads_kept,
                    stats_file >>

\* Step 3 (pcr) / step 4 (optical): the representative of every cluster and
\* the removal set.
Select ==
    /\ pc = "selecting"
    /\ \E checks \in IF SelectionOverflows THEN BOOLEAN ELSE {FALSE} :
         LET r == SelectAll(duplicate_clusters, records_with_signatures,
                            keep_best_quality, checks)
         IN  /\ pc' = IF r.panic THEN "panicked" ELSE "create_output"
             /\ duplicate_indices' = IF r.panic THEN {} ELSE r.duplicate_indices
             /\ cluster_sizes' = IF r.panic THEN <<>> ELSE r.cluster_sizes
             /\ representatives' = IF r.panic THEN {} ELSE r.representatives
    /\ UNCHANGED << scan, trimmer, tool, arg_threshold, keep_best_quality, threshold,
                    stream_read, records_with_signatures, total_reads,
                    duplicate_clusters, output_created, write_pos, output,
                    unique_reads_kept, stats_file >>

\* `let mut writer = FastqWriter::create(output_path)?;`
CreateOutput ==
    /\ pc = "create_output"
    /\ \E ok \in BOOLEAN :
        /\ output_created' = ok
        /\ pc' = IF ok THEN "writing" ELSE "err_io"
    /\ UNCHANGED << scan, trimmer, tool, arg_threshold, keep_best_quality, threshold,
                    stream_read, records_with_signatures, total_reads,
                    duplicate_clusters, duplicate_indices, cluster_sizes, representatives,
                    write_pos, output, unique_reads_kept, stats_file >>

\* The output test inverted: `if duplicate_indices.contains(&i)`.
Emits_Inverted(i, removed) == i \in removed

\* `if !duplicate_indices.contains(&i)`
Emits(i, removed) == i \notin removed

\* One iteration of the output loop.
WriteStep ==
    /\ pc = "writing"
    /\ write_pos < Len(records_with_signatures)
    /\ IF Emits(write_pos, duplicate_indices)
       THEN \E ok \in BOOLEAN :
              IF ok
              THEN /\ output' = Append(output,
                                   records_with_signatures[write_pos + 1].record)
                   /\ unique_reads_kept' = unique_reads_kept + 1
                   /\ write_pos' = write_pos + 1
                   /\ pc' = pc
              ELSE /\ pc' = "err_io"
                   /\ UNCHANGED << output, unique_reads_kept, write_pos >>
       ELSE /\ write_pos' = write_pos + 1
            /\ UNCHANGED << pc, output, unique_reads_kept >>
    /\ UNCHANGED << scan, trimmer, tool, arg_threshold, keep_best_quality, threshold,
                    stream_read, records_with_signatures, total_reads,
                    duplicate_clusters, duplicate_indices, cluster_sizes, representatives,
                    output_created, stats_file >>

\* AverageClusterSize without the `is_empty()` guard: 0.0 / 0.0 is NaN.
AverageClusterSize_NoGuard(clusters, sizes) ==
    IF clusters = <<>> THEN NaN ELSE F64(SumSeq(sizes), Len(clusters))

\* average_cluster_size / average_group_size
AverageClusterSize(clusters, sizes) ==
    IF clusters = <<>> THEN F64(0, 1) ELSE F64(SumSeq(sizes), Len(clusters))

\* Stats counting every member of a group as a duplicate found, the
\* representative included.
Stats_CountsMembers ==
    [total_reads          |-> total_reads,
     duplicates_found     |-> SumSeq(cluster_sizes),
     unique_reads_kept    |-> unique_reads_kept,
     duplicate_clusters   |-> Len(duplicate_clusters),
     average_cluster_size |-> AverageClusterSize(duplicate_clusters, cluster_sizes),
     threshold            |-> threshold]

\* The statistics the run returns to main.
Stats ==
    [total_reads          |-> total_reads,
     duplicates_found     |-> Cardinality(duplicate_indices),
     unique_reads_kept    |-> unique_reads_kept,
     duplicate_clusters   |-> Len(duplicate_clusters),
     average_cluster_size |-> AverageClusterSize(duplicate_clusters, cluster_sizes),
     threshold            |-> threshold]

\* Report without waiting for the end of the output loop: the statistics
\* file is written while records are still to be written.
Report_Early ==
    /\ pc = "writing"
    /\ \E ok \in BOOLEAN :
        /\ stats_file' = IF ok THEN << Stats >> ELSE <<>>
        /\ pc' = IF ok THEN "done" ELSE "err_io"
    /\ UNCHANGED << scan, trimmer, tool, arg_threshold, keep_best_quality, threshold,
                    stream_read, records_with_signatures, total_reads,
                    duplicate_clusters, duplicate_indices, cluster_sizes, representatives,
                    output_created, write_pos, output, unique_reads_kept >>

\* The run returns Ok(stats) and main writes the statistics file.
Report ==
    /\ pc = "writing"
    /\ write_pos = Len(records_with_signatures)
    /\ \E ok \in BOOLEAN :
        /\ stats_file' = IF ok THEN << Stats >> ELSE <<>>
        /\ pc' = IF ok THEN "done" ELSE "err_io"
    /\ UNCHANGED << scan, trimmer, tool, arg_threshold, keep_best_quality, threshold,
                    stream_read, records_with_signatures, total_reads,
                    duplicate_clusters, duplicate_indices, cluster_sizes, representatives,
                    output_created, write_pos, output, unique_reads_kept >>

Next ==
    \/ ParseArgs
    \/ ValidateThreshold
    \/ ReadRecord
    \/ ReadFails
    \/ ReadEnd
    \/ ClusterPcr
    \/ ClusterOptical
    \/ Select
    \/ CreateOutput
    \/ WriteStep
    \/ Report

Spec == Init /\ [][Next]_vars

----------------------------------------------------------------------------
(* The core on a loaded batch: the run at the end of its read loop, for    *)
(* batches of up to MaxBatch records, followed by clustering and           *)
(* selection.                                                              *)

BatchQualities == { <<63>>, <<68, 68>> }

BatchRecordsOf(t) == { r \in RecordsOf(t) : r.quality \in BatchQualities }

\* The --threshold texts with which a run gets to its read loop.
AcceptedArgs(t) ==
    { a \in ArgThresholds(t) :
        /\ ParseF64(a).ok
        /\ t = "pcr" => ~ThresholdRejected(ParseF64(a)) }

InitBatch ==
    /\ tool \in Tools
    /\ pc = "clustering"
    /\ arg_threshold \in AcceptedArgs(tool)
    /\ keep_best_quality \in BOOLEAN
    /\ threshold = ParseF64(arg_threshold)
    /\ stream_read \in UNION { [1..n -> BatchRecordsOf(tool)] : n \in 0..MaxBatch }
    /\ records_with_signatures =
           [k \in 1..Len(stream_read) |->
               [record |-> stream_read[k],
                sig |-> FingerprintOf(tool, stream_read[k])]]
    /\ total_reads = Len(stream_read)
    /\ duplicate_clusters = <<>>
    /\ duplicate_indices = {}
    /\ cluster_sizes = <<>>
    /\ representatives = {}
    /\ output_created = FALSE
    /\ write_pos = 0
    /\ output = <<>>
    /\ unique_reads_kept = 0
    /\ stats_file = <<>>
    /\ scan = NoScan
    /\ trimmer = NoTrimmer

NextBatch ==
    \/ ClusterPcr
    \/ ClusterOptical
    \/ Select

SpecBatch == InitBatch /\ [][NextBatch]_vars

----------------------------------------------------------------------------
(* The core on a pair of records with arbitrary minimizer lists: lists of  *)
(* up to MaxHashes hash values, repeated values and every order included.  *)

HashValues == 1..3

PairSequences ==
    {MinsErr} \cup
    { Mins(h) : h \in UNION { [1..n -> HashValues] : n \in 0..MaxHashes } }

PairRecords == [id : {CoordErr}, sequence : PairSequences, quality : {<<63>>}]

InitPair ==
    /\ tool = "pcr"
    /\ pc = "clustering"
    /\ arg_threshold \in AcceptedArgs(tool)
    /\ keep_best_quality \in BOOLEAN
    /\ threshold = ParseF64(arg_threshold)
    /\ stream_read \in [1..2 -> PairRecords]
    /\ records_with_signatures =
           [k \in 1..Len(stream_read) |->
               [record |-> stream_read[k],
                sig |-> FingerprintOf(tool, stream_read[k])]]
    /\ total_reads = Len(stream_read)
    /\ duplicate_clusters = <<>>
    /\ duplicate_indices = {}
    /\ cluster_sizes = <<>>
    /\ representatives = {}
    /\ output_created = FALSE
    /\ write_pos = 0
    /\ output = <<>>
    /\ unique_reads_kept = 0
    /\ stats_file = <<>>
    /\ scan = NoScan
    /\ trimmer = NoTrimmer

NextPair ==
    \/ ClusterPcr
    \/ Select

SpecPair == InitPair /\ [][NextPair]_vars

----------------------------------------------------------------------------
(* find_pcr_duplicates run one loop step at a time on a loaded batch of up *)
(* to MaxScan records.  scan holds the locals of the function (batch_size, *)
(* batch_start, batch_end, i, j, clusters, assigned, current_cluster) and  *)
(* two logs: compared, one entry per call of calculate_jaccard_similarity  *)
(* with the assigned set at the time of the call, and opened, one entry    *)
(* per `vec![i]` with the assigned set before i was inserted.              *)

ScanRecords == { r \in RecordsOf("pcr") : r.quality = <<63>> }

InitScan ==
    /\ tool = "pcr"
    /\ pc = "clustering"
    /\ arg_threshold \in AcceptedArgs(tool)
    /\ keep_best_quality = FALSE
    /\ threshold = ParseF64(arg_threshold)
    /\ stream_read \in UNION { [1..n -> ScanRecords] : n \in 0..MaxScan }
    /\ records_with_signatures =
           [k \in 1..Len(stream_read) |->
               [record |-> stream_read[k],
                sig |-> FingerprintOf(tool, stream_read[k])]]
    /\ total_reads = Len(stream_read)
    /\ duplicate_clusters = <<>>
    /\ duplicate_indices = {}
    /\ cluster_sizes = <<>>
    /\ representatives = {}
    /\ output_created = FALSE
    /\ write_pos = 0
    /\ output = <<>>
    /\ unique_reads_kept = 0
    /\ stats_file = <<>>
    /\ scan = NoScan
    /\ trimmer = NoTrimmer

\* What no step of find_pcr_duplicates touches.
ScanFrame ==
    UNCHANGED << tool, arg_threshold, keep_best_quality, threshold, stream_read,
                 records_with_signatures, total_reads, duplicate_indices,
                 cluster_sizes, representatives, output_created, write_pos,
                 output, unique_reads_kept, stats_file, trimmer >>

\* Entry: the locals are initialised; `step_by(batch_size)` panics for
\* batch_size = 0.
ScanEnter ==
    /\ pc = "clustering" /\ scan.phase = "none"
    /\ LET n_records  == Len(records_with_signatures)
           batch_size == Min(BatchCap, n_records)
       IN  IF batch_size = 0
           THEN /\ pc' = "panicked"
                /\ scan' = [phase |-> "panicked"]
           ELSE /\ pc' = pc
                /\ scan' = [phase |-> "batch", batch_size |-> batch_size,
                            batch_start |-> 0, batch_end |-> 0, i |-> 0, j |-> 0,
                            clusters |-> <<>>, assigned |-> {},
                            current_cluster |-> <<>>,
                            compared |-> <<>>, opened |-> <<>>]
    /\ UNCHANGED duplicate_clusters
    /\ ScanFrame

\* `for batch_start in (0..n_records).step_by(batch_size)`: the next batch.
ScanNextBatch ==
    /\ scan.phase = "batch"
    /\ scan.batch_start < Len(records_with_signatures)
    /\ scan' = [scan EXCEPT
                  !.phase = "anchor",
                  !.batch_end = Min(scan.batch_start + scan.batch_size,
                                    Len(records_with_signatures)),
                  !.i = scan.batch_start]
    /\ UNCHANGED << pc, duplicate_clusters >>
    /\ ScanFrame

\* The batches are exhausted: `Ok(clusters)`.
ScanReturn ==
    /\ scan.phase = "batch"
    /\ scan.batch_start >= Len(records_with_signatures)
    /\ scan' = [scan EXCEPT !.phase = "returned"]
    /\ duplicate_clusters' = scan.clusters
    /\ pc' = "selecting"
    /\ ScanFrame

\* `for i in batch_start..batch_end` is exhausted.
ScanBatchEnd ==
    /\ scan.phase = "anchor"
    /\ scan.i >= scan.batch_end
    /\ scan' = [scan EXCEPT !.phase = "batch",
                            !.batch_start = scan.batch_start + scan.batch_size]
    /\ UNCHANGED << pc, duplicate_clusters >>
    /\ ScanFrame

\* `if assigned.contains(&i) { continue; }`
ScanSkipAnchor ==
    /\ scan.phase = "anchor"
    /\ scan.i < scan.batch_end
    /\ scan.i \in scan.assigned
    /\ scan' = [scan EXCEPT !.i = scan.i + 1]
    /\ UNCHANGED << pc, duplicate_clusters >>
    /\ ScanFrame

\* `let mut current_cluster = vec![i]; assigned.insert(i);`
ScanOpen ==
    /\ scan.phase = "anchor"
    /\ scan.i < scan.batch_end
    /\ scan.i \notin scan.assigned
    /\ scan' = [scan EXCEPT
                  !.phase = "inner",
                  !.current_cluster = << scan.i >>,
                  !.assigned = scan.assigned \cup {scan.i},
                  !.j = scan.i + 1,
                  !.opened = Append(scan.opened,
                                    [i |-> scan.i, assigned |-> scan.assigned])]
    /\ UNCHANGED << pc, duplicate_clusters >>
    /\ ScanFrame

\* `if assigned.contains(&j) { continue; }`
ScanSkipAssigned ==
    /\ scan.phase = "inner"
    /\ scan.j < Len(records_with_signatures)
    /\ scan.j \in scan.assigned
    /\ scan' = [scan EXCEPT !.j = scan.j + 1]
    /\ UNCHANGED << pc, duplicate_clusters >>
    /\ ScanFrame

\* ScanCompare without the test that j is unassigned.
ScanCompare_NoSkip ==
    /\ scan.phase = "inner"
    /\ scan.j < Len(records_with_signatures)
    /\ LET similarity ==
               calculate_jaccard_similarity(records_with_signatures[scan.i + 1].sig,
                                            records_with_signatures[scan.j + 1].sig)
           hit == FGe(similarity, threshold)
       IN  scan' = [scan EXCEPT
                      !.compared = Append(scan.compared,
                                          [i |-> scan.i, j |-> scan.j,
                                           assigned |-> scan.assigned]),
                      !.current_cluster = IF hit THEN Append(scan.current_cluster, scan.j)
                                          ELSE scan.current_cluster,
                      !.assigned = IF hit THEN scan.assigned \cup {scan.j}
                                   ELSE scan.assigned,
                      !.j = scan.j + 1]
    /\ UNCHANGED << pc, duplicate_clusters >>
    /\ ScanFrame

\* One similarity evaluation of the inner loop and its `if similarity >=
\* threshold { current_cluster.push(j); assigned.insert(j); }`.
ScanCompare ==
    /\ scan.phase = "inner"
    /\ scan.j < Len(records_with_signatures)
    /\ scan.j \notin scan.assigned
    /\ LET similarity ==
               calculate_jaccard_similarity(records_with_signatures[scan.i + 1].sig,
                                            records_with_signatures[scan.j + 1].sig)
           hit == FGe(similarity, threshold)
       IN  scan' = [scan EXCEPT
                      !.compared = Append(scan.compared,
                                          [i |-> scan.i, j |-> scan.j,
                                           assigned |-> scan.assigned]),
                      !.current_cluster = IF hit THEN Append(scan.current_cluster, scan.j)
                                          ELSE scan.current_cluster,
                      !.assigned = IF hit THEN scan.assigned \cup {scan.j}
                                   ELSE scan.assigned,
                      !.j = scan.j + 1]
    /\ UNCHANGED << pc, duplicate_clusters >>
    /\ ScanFrame

\* `for j in (i + 1)..n_records` is exhausted:
\* `if current_cluster.len() > 1 { clusters.push(current_cluster); }`
ScanClose ==
    /\ scan.phase = "inner"
    /\ scan.j >= Len(records_with_signatures)
    /\ scan' = [scan EXCEPT
                  !.phase = "anchor",
                  !.clusters = IF Len(scan.current_cluster) > 1
                               THEN Append(scan.clusters, scan.current_cluster)
                               ELSE scan.clusters,
                  !.i = scan.i + 1]
    /\ UNCHANGED << pc, duplicate_clusters >>
    /\ ScanFrame

NextScan ==
    \/ ScanEnter
    \/ ScanNextBatch
    \/ ScanReturn
    \/ ScanBatchEnd
    \/ ScanSkipAnchor
    \/ ScanOpen
    \/ ScanSkipAssigned
    \/ ScanCompare
    \/ ScanClose

\* The function is sequential code: a step that can be taken is taken.
SpecScan == InitScan /\ [][NextScan]_vars /\ WF_vars(NextScan)

----------------------------------------------------------------------------
(* polyg_trim.rs: PolyGTrimmer::trim_reads on a stream of up to            *)
(* MaxTrimReads records with sequences of 1..MaxSeqLen bases.  The records *)
(* read are stream_read, the records written are output; trimmer holds the *)
(* two parameters, the counters of trim_reads and the result of the last   *)
(* call of trim_polyg_tail.  A record is [sequence, quality]; the quality  *)
(* byte of position k is 40 + k, so that a quality list tells which        *)
(* positions it was cut from.  Empty records are skipped by the loop       *)
(* (`record.is_empty()`) and are not generated.                            *)

Bases == {"G", "g", "A"}

IsG(b) == b = "G" \/ b = "g"

PolyGRecords ==
    { [sequence |-> sq, quality |-> [k \in 1..Len(sq) |-> 40 + k]] :
        sq \in UNION { [1..n -> Bases] : n \in 1..MaxSeqLen } }

\* The values of --min-polyg-length and --min-read-length of the model.
MinPolyGLengths == {1, 2}
MinReadLengths  == {0, 2}

\* `for i in (0..seq_len).rev()` of trim_polyg_tail, from i down; i = -1
\* ends the loop.  Returns polyg_start.
RECURSIVE TailScan(_, _, _, _, _)
TailScan(sequence, min_polyg_length, i, polyg_start, consecutive_gs) ==
    IF i < 0 THEN polyg_start
    ELSE IF IsG(sequence[i + 1])
         THEN LET c == consecutive_gs + 1
              IN  TailScan(sequence, min_polyg_length, i - 1,
                           IF c >= min_polyg_length THEN i ELSE polyg_start, c)
         ELSE TailScan(sequence, min_polyg_length, i - 1, polyg_start, 0)

\* PolyGTrimmer::trim_polyg_tail
trim_polyg_tail(sequence, quality, min_polyg_length) ==
    LET seq_len == Len(sequence)
        polyg_start == TailScan(sequence, min_polyg_length, seq_len - 1, seq_len, 0)
    IN  IF polyg_start < seq_len
        THEN [sequence    |-> SubSeq(sequence, 1, polyg_start),
              quality     |-> SubSeq(quality, 1, polyg_start),
              trim_length |-> seq_len - polyg_start]
        ELSE [sequence |-> sequence, quality |-> quality, trim_length |-> 0]

InitPolyG ==
    /\ tool = "polyg"
    /\ pc = "trimming"
    /\ trimmer \in [phase : {"run"},
                    min_polyg_length : MinPolyGLengths,
                    min_read_length : MinReadLengths,
                    reads_trimmed : {0}, reads_discarded : {0},
                    total_bases_removed : {0},
                    average_trim_length : {F64(0, 1)},
                    last : {[sequence |-> <<>>, quality |-> <<>>, trim_length |-> 0]}]
    /\ arg_threshold = "0.0"
    /\ keep_best_quality = FALSE
    /\ threshold = ParseErr
    /\ stream_read = <<>>
    /\ records_with_signatures = <<>>
    /\ total_reads = 0
    /\ duplicate_clusters = <<>>
    /\ duplicate_indices = {}
    /\ cluster_sizes = <<>>
    /\ representatives = {}
    /\ output_created = TRUE
    /\ write_pos = 0
    /\ output = <<>>
    /\ unique_reads_kept = 0
    /\ stats_file = <<>>
    /\ scan = NoScan

\* What no step of trim_reads touches.
TrimFrame ==
    UNCHANGED << tool, arg_threshold, keep_best_quality, threshold,
                 records_with_signatures, duplicate_clusters, duplicate_indices,
                 cluster_sizes, representatives, output_created, write_pos,
                 unique_reads_kept, stats_file, scan >>

\* One iteration of `for record_result in fastq_stream` of trim_reads with
\* an Ok record and successful writes.
TrimRecord ==
    /\ pc = "trimming"
    /\ Len(stream_read) < MaxTrimReads
    /\ \E record \in PolyGRecords :
         LET r == trim_polyg_tail(record.sequence, record.quality,
                                  trimmer.min_polyg_length)
             kept == Len(r.sequence) >= trimmer.min_read_length
         IN  /\ stream_read' = Append(stream_read, record)
             /\ total_reads' = total_reads + 1
             /\ output' = IF kept
                          THEN Append(output, [sequence |-> r.sequence,
                                               quality |-> r.quality])
                          ELSE output
             /\ trimmer' = [trimmer EXCEPT
                              !.reads_trimmed = @ + (IF r.trim_length > 0 THEN 1 ELSE 0),
                              !.total_bases_removed = @ + r.trim_length,
                              !.reads_discarded = @ + (IF kept THEN 0 ELSE 1),
                              !.last = r]
    /\ pc' = pc
    /\ TrimFrame

\* The stream yields an Err or a writeln! fails: `?` returns.
TrimFails ==
    /\ pc = "trimming"
    /\ pc' = "err_io"
    /\ UNCHANGED << stream_read, total_reads, output, trimmer >>
    /\ TrimFrame

\* The stream is exhausted: trim_reads returns its statistics.
TrimEnd ==
    /\ pc = "trimming"
    /\ pc' = "done"
    /\ trimmer' = [trimmer EXCEPT
                     !.average_trim_length =
                         IF trimmer.reads_trimmed > 0
                         THEN F64(trimmer.total_bases_removed, trimmer.reads_trimmed)
                         ELSE F64(0, 1)]
    /\ UNCHANGED << stream_read, total_reads, output >>
    /\ TrimFrame

NextPolyG ==
    \/ TrimRecord
    \/ TrimFails
    \/ TrimEnd

SpecPolyG == InitPolyG /\ [][NextPolyG]_vars

----------------------------------------------------------------------------
(* Properties *)

n_records == Len(records_with_signatures)

Clustered == pc \in {"selecting", "create_output", "writing", "done"}
Selected  == pc \in {"create_output", "writing", "done"}

\* The accepted range of the similarity threshold.
InUnit(t) == t.ok /\ ~t.nan /\ 0 <= t.num /\ t.num <= t.den

Members(clusters) == UNION { Range(clusters[k]) : k \in 1..Len(clusters) }

\* C1. Partition validity: the groups find_pcr_duplicates returns are
\* pairwise disjoint with no index repeated inside a group, hold only
\* indices 0..n-1, and have at least 2 members each.
C1_PartitionValidity ==
    (tool = "pcr" /\ Clustered) =>
        LET flat == Flatten(duplicate_clusters)
        IN  /\ \A a, b \in 1..Len(flat) : a # b => flat[a] # flat[b]
            /\ \A a \in 1..Len(flat) : flat[a] \in 0..(n_records - 1)
            /\ \A k \in 1..Len(duplicate_clusters) : Len(duplicate_clusters[k]) >= 2

\* Two groups have been returned for one batch.
C1_Witness ==
    /\ tool = "pcr" /\ pc = "selecting"
    /\ Len(duplicate_clusters) >= 2

\* C2. After representative selection the removal set holds exactly
\* |G| - 1 members of every group G of size > 1 (one member survives), and
\* nothing that is not a member of a group.
C2_OneSurvivorPerGroup ==
    Selected =>
        /\ \A k \in 1..Len(duplicate_clusters) :
             LET G == Range(duplicate_clusters[k])
             IN  Cardinality(G) > 1 =>
                     Cardinality(G \cap duplicate_indices) = Cardinality(G) - 1
        /\ duplicate_indices \subseteq Members(duplicate_clusters)

\* Selection has acted on two groups, one of them with three members, under
\* the best-quality policy.
C2_Witness ==
    /\ pc = "create_output" /\ keep_best_quality
    /\ Len(duplicate_clusters) >= 1
    /\ \E k \in 1..Len(duplicate_clusters) : Len(duplicate_clusters[k]) >= 3
    /\ Cardinality(duplicate_indices) >= 2

\* C3. Representative membership: under both policies the representative
\* selected for a group is a member of that group.
C3_RepresentativeMembership ==
    Selected =>
        /\ \A r \in representatives :
             /\ r.cluster \in 1..Len(duplicate_clusters)
             /\ r.idx \in Range(duplicate_clusters[r.cluster])
        /\ \A k \in 1..Len(duplicate_clusters) :
             \E r \in representatives : r.cluster = k

\* Best-quality selection has chosen a member that is not the first of its
\* group.
C3_Witness ==
    /\ pc = "create_output" /\ keep_best_quality
    /\ \E r \in representatives : r.idx # duplicate_clusters[r.cluster][1]

\* The records of the first upto input records whose index is not removed,
\* in input order.
RECURSIVE Kept(_, _, _)
Kept(records, removed, upto) ==
    IF upto = 0 THEN <<>>
    ELSE LET rest == Kept(records, removed, upto - 1)
         IN  IF (upto - 1) \in removed THEN rest
             ELSE Append(rest, records[upto])

\* C4. The output stream is exactly the input records whose index is not
\* in the removal set, each once and in input order: while the output loop
\* runs the output is that selection of the records passed so far, and when
\* the run is done every input record has been passed.
C4_OutputIsFilteredInput ==
    /\ pc \in {"writing", "done"} =>
           output = Kept(stream_read, duplicate_indices, write_pos)
    /\ pc = "done" => write_pos = Len(stream_read)
    /\ pc \notin {"writing", "done", "err_io"} => output = <<>>

\* A run is done that removed a record lying between two emitted records.
C4_Witness ==
    /\ pc = "done"
    /\ Len(output) >= 2
    /\ \E i \in duplicate_indices :
         \E a, b \in 0..(Len(stream_read) - 1) :
            a < i /\ i < b /\ a \notin duplicate_indices /\ b \notin duplicate_indices

\* The removal set of a further run of pcr_dedup (read, cluster, select)
\* on the records of a written output file; empty when that run panics
\* before it removes anything.
RerunRemovals(written, t, keep_best, checks) ==
    LET records == [k \in 1..Len(written) |->
                       [record |-> written[k], sig |-> SignatureOf(written[k])]]
        clustered == find_pcr_duplicates(Signatures(records), t)
        selected  == SelectAll(clustered.clusters, records, keep_best, checks)
    IN  IF clustered.panic \/ selected.panic THEN {}
        ELSE selected.duplicate_indices

\* Every quality byte of the input is at or above the encoding offset, so
\* that decoding is exact in every build.
QualitiesDecodable ==
    \A k \in 1..Len(stream_read) :
        \A m \in 1..Len(stream_read[k].quality) :
            stream_read[k].quality[m] >= QualityOffset

\* C5 as stated. Idempotence under either policy: a second run of the PCR
\* pipeline on its own filtered output, with the same threshold and policy,
\* removes no further record.  (Taken on inputs with decodable qualities:
\* the statement already fails there.)
C5_IdempotentEitherPolicy ==
    (tool = "pcr" /\ pc = "done" /\ QualitiesDecodable) =>
        \A checks \in BOOLEAN :
            RerunRemovals(output, threshold, keep_best_quality, checks) = {}

\* C5 amended. Idempotence under the first-occurrence policy: a second run
\* of the PCR pipeline on its own filtered output, with the same threshold
\* and the first-occurrence policy, removes no further record.
C5_IdempotentFirstOccurrence ==
    (tool = "pcr" /\ pc = "done" /\ ~keep_best_quality) =>
        \A checks \in BOOLEAN :
            RerunRemovals(output, threshold, keep_best_quality, checks) = {}

\* A first-occurrence run is done that removed a record and left at least
\* two records for the second run to compare.
C5_Witness ==
    /\ tool = "pcr" /\ pc = "done" /\ ~keep_best_quality
    /\ duplicate_indices # {}
    /\ Len(output) >= 2

Sig(i) == records_with_signatures[i + 1].sig

\* C6 as stated. Empty-fingerprint isolation: under every accepted
\* threshold in [0.0, 1.0], 0.0 included, a record with an empty content
\* fingerprint is in no group and is not removed.
C6_EmptyFingerprintIsolation ==
    (tool = "pcr" /\ InUnit(threshold)) =>
        \A i \in 0..(n_records - 1) :
            Sig(i) = <<>> =>
                /\ i \notin Members(duplicate_clusters)
                /\ i \notin duplicate_indices

\* C7. Self-similarity: the Jaccard similarity of a non-empty fingerprint
\* with itself is 1.0, and under every threshold <= 1.0 two records with
\* identical non-empty fingerprints are members of one and the same group.
C7_SelfSimilarity ==
    tool = "pcr" =>
        /\ \A i \in 0..(n_records - 1) :
             Sig(i) # <<>> =>
                 LET s == calculate_jaccard_similarity(Sig(i), Sig(i))
                 IN  ~s.nan /\ s.num = s.den
        /\ (Clustered /\ FGe(F64(1, 1), threshold)) =>
             \A i, j \in 0..(n_records - 1) :
                 (i < j /\ Sig(i) # <<>> /\ Range(Sig(i)) = Range(Sig(j))) =>
                     \E k \in 1..Len(duplicate_clusters) :
                         {i, j} \subseteq Range(duplicate_clusters[k])

\* Two records with identical fingerprints, not adjacent in the input, have
\* been absorbed by an earlier anchor with a different fingerprint.
C7_Witness ==
    /\ tool = "pcr" /\ pc = "selecting"
    /\ \E k \in 1..Len(duplicate_clusters) :
         \E i, j \in Range(duplicate_clusters[k]) :
            /\ i + 1 < j
            /\ Sig(i) # <<>> /\ Sig(i) = Sig(j)
            /\ duplicate_clusters[k][1] # i
            /\ Sig(duplicate_clusters[k][1]) # Sig(i)

\* C8 as stated. An empty input is processed without error by pcr_dedup:
\* no panic, no group, nothing removed, nothing written, and the statistics
\* report zero groups with mean group size 0.
C8_EmptyInputSucceeds ==
    (tool = "pcr" /\ total_reads = 0) =>
        /\ pc # "panicked"
        /\ duplicate_clusters = <<>> /\ duplicate_indices = {} /\ output = <<>>
        /\ pc = "done" =>
               /\ stats_file[1].duplicate_clusters = 0
               /\ stats_file[1].average_cluster_size = F64(0, 1)

\* C9 as stated. pcr_dedup rejects every threshold that is not a value in
\* [0.0, 1.0] before it reads a record or creates the output or statistics
\* file, and no such threshold reaches clustering.
C9_ThresholdOutsideUnitRejected ==
    (tool = "pcr" /\ ~InUnit(ParseF64(arg_threshold))) =>
        /\ total_reads = 0
        /\ ~output_created
        /\ stats_file = <<>>
        /\ pc \notin {"clustering", "selecting", "create_output", "writing", "done"}

\* C10 as stated. optical_dedup rejects a negative distance threshold before
\* it reads a record or writes any output.
C10_NegativeDistanceRejected ==
    (tool = "optical" /\ ParseF64(arg_threshold).ok /\ ParseF64(arg_threshold).num < 0) =>
        /\ total_reads = 0
        /\ ~output_created
        /\ output = <<>>
        /\ stats_file = <<>>

\* The mean decoded quality of a record as a number: the arithmetic mean of
\* (byte - 33) over its quality bytes, 0 for an empty quality.
MeanDecodedQuality(record) ==
    IF record.quality = <<>> THEN F64(0, 1)
    ELSE F64(SumSeq([k \in 1..Len(record.quality) |->
                        record.quality[k] - QualityOffset]),
             Len(record.quality))

RecordAt(i) == records_with_signatures[i + 1].record

\* C11 as stated. Under the best-quality policy the representative of a
\* group has the maximum mean decoded quality (mean of byte - 33) among the
\* members, and among members tied for the maximum it is the one with the
\* lowest index.  (Taken on pcr_dedup: the statement already fails there.)
C11_BestQualityIsArgMax ==
    (tool = "pcr" /\ Selected /\ keep_best_quality) =>
        \A r \in representatives :
            \A m \in Range(duplicate_clusters[r.cluster]) :
                /\ ~FGt(MeanDecodedQuality(RecordAt(m)),
                        MeanDecodedQuality(RecordAt(r.idx)))
                /\ m < r.idx => FLt(MeanDecodedQuality(RecordAt(m)),
                                    MeanDecodedQuality(RecordAt(r.idx)))

\* C12. Under the first-occurrence policy the representative of a group is
\* its lowest index, the anchor: every group find_pcr_duplicates returns is
\* strictly ascending, so cluster[0] is its minimum.
C12_FirstOccurrenceIsAnchor ==
    (tool = "pcr" /\ Clustered) =>
        /\ \A k \in 1..Len(duplicate_clusters) :
             \A a, b \in 1..Len(duplicate_clusters[k]) :
                a < b => duplicate_clusters[k][a] < duplicate_clusters[k][b]
        /\ (Selected /\ ~keep_best_quality) =>
             \A r \in representatives :
                \A m \in Range(duplicate_clusters[r.cluster]) : r.idx <= m

\* First-occurrence selection has acted on a group of three whose members
\* are not consecutive in the input.
C12_Witness ==
    /\ tool = "pcr" /\ pc = "create_output" /\ ~keep_best_quality
    /\ \E r \in representatives :
         /\ Len(duplicate_clusters[r.cluster]) >= 3
         /\ \E a \in 1..(Len(duplicate_clusters[r.cluster]) - 1) :
              duplicate_clusters[r.cluster][a] + 1 < duplicate_clusters[r.cluster][a + 1]

\* C13 as stated. Representative selection never fails on a non-empty
\* group, whatever the quality bytes: decoding byte - 33 does not underflow
\* for any member of a group, and no run panics in selection.  (Taken on
\* pcr_dedup: the statement already fails there.)
C13_SelectionNeverFails ==
    /\ (tool = "pcr" /\ pc = "panicked") => duplicate_clusters = <<>>
    /\ (tool = "pcr" /\ pc = "selecting" /\ keep_best_quality) =>
           \A i \in Members(duplicate_clusters) :
               \A checks \in BOOLEAN :
                   LET q == calculate_mean_quality(RecordAt(i), checks)
                   IN  ~q.panic /\ q.val = MeanDecodedQuality(RecordAt(i))

\* C14 as stated. In optical_dedup a read whose identifier cannot be parsed
\* is in no group and is not removed, whatever else the batch holds.
C14_UnparseableNeverGrouped ==
    tool = "optical" =>
        \A i \in 0..(n_records - 1) :
            ~RecordAt(i).id.ok =>
                /\ i \notin Members(duplicate_clusters)
                /\ i \notin duplicate_indices

\* similarity(i, j) >= threshold on the fingerprints of the batch.
Similar(i, j) == FGe(calculate_jaccard_similarity(Sig(i), Sig(j)), threshold)

\* The indices that opened a group of their own: the first member of a
\* returned group, or an index that is in no returned group.
Anchors ==
    { i \in 0..(n_records - 1) :
        \/ i \notin Members(duplicate_clusters)
        \/ \E k \in 1..Len(duplicate_clusters) : duplicate_clusters[k][1] = i }

\* C15. Earliest anchor wins: every grouped non-anchor index j is in the
\* group of the lowest-index anchor i < j with similarity(i, j) >= threshold,
\* also when j meets the threshold against a later anchor.
C15_EarliestAnchorWins ==
    (tool = "pcr" /\ Clustered) =>
        \A k \in 1..Len(duplicate_clusters) :
            \A m \in 2..Len(duplicate_clusters[k]) :
                LET a == duplicate_clusters[k][1]
                    j == duplicate_clusters[k][m]
                IN  /\ a < j
                    /\ a \in { i \in Anchors : i < j /\ Similar(i, j) }
                    /\ \A i \in Anchors : (i < j /\ Similar(i, j)) => a <= i

\* An index has been grouped with an anchor although a later anchor before
\* it also meets the threshold against it.
C15_Witness ==
    /\ tool = "pcr" /\ pc = "selecting"
    /\ \E k \in 1..Len(duplicate_clusters) :
         \E m \in 2..Len(duplicate_clusters[k]) :
            \E i \in Anchors :
               /\ duplicate_clusters[k][1] < i
               /\ i < duplicate_clusters[k][m]
               /\ Similar(i, duplicate_clusters[k][m])

\* The number of members of all groups together.
RECURSIVE TotalSize(_)
TotalSize(clusters) ==
    IF clusters = <<>> THEN 0 ELSE Len(Head(clusters)) + TotalSize(Tail(clusters))

\* C16. The reported group count is the number of duplicate groups (each of
\* size >= 2), the reported mean group size is the sum of their sizes
\* divided by their number, and it is 0 when there is no group.  Stats is
\* what the run reports once selection is over; the statistics file of a
\* finished run holds it.
C16_GroupStatistics ==
    /\ Selected =>
         /\ \A k \in 1..Len(duplicate_clusters) : Len(duplicate_clusters[k]) >= 2
         /\ Stats.duplicate_clusters = Len(duplicate_clusters)
         /\ ~Stats.average_cluster_size.nan
         /\ duplicate_clusters = <<>> => Stats.average_cluster_size.num = 0
         /\ Stats.average_cluster_size.num * Len(duplicate_clusters)
                = TotalSize(duplicate_clusters) * Stats.average_cluster_size.den
    /\ pc = "done" => stats_file = << Stats >>

\* A run that found a group of three has written its statistics.
C16_Witness ==
    /\ pc = "done"
    /\ Len(duplicate_clusters) = 1 /\ Len(duplicate_clusters[1]) = 3
    /\ stats_file[1].duplicate_clusters = 1
    /\ stats_file[1].average_cluster_size = F64(3, 1)

\* C17 as stated. A run that ends with an I/O error does not partially
\* commit: it has written no statistics, and it leaves no partially written
\* output (the output is empty, or complete when only the statistics could
\* not be written).  (Taken on pcr_dedup: the statement already fails there.)
C17_NoPartialCommit ==
    (tool = "pcr" /\ pc = "err_io") =>
        /\ stats_file = <<>>
        /\ \/ output = <<>>
           \/ /\ write_pos = n_records
              /\ output = Kept(stream_read, duplicate_indices, n_records)

\* C18. The core never mutates items: the read loop only appends to the
\* item/fingerprint list, no later step changes the list, and every record
\* in the output is the unchanged item (identifier, sequence, quality) of a
\* kept index.
C18_ItemsNeverMutated ==
    [][ /\ pc # "reading" => records_with_signatures' = records_with_signatures
        /\ pc = "reading" =>
               SubSeq(records_with_signatures', 1, Len(records_with_signatures))
                   = records_with_signatures
        /\ \A m \in 1..Len(output') :
               \E i \in 0..(Len(records_with_signatures') - 1) :
                   /\ i \notin duplicate_indices'
                   /\ output'[m] = stream_read'[i + 1]
                   /\ output'[m] = records_with_signatures'[i + 1].record
      ]_vars

\* A best-quality run is done that read the qualities of a group, removed a
\* record and wrote the others.
C18_Witness ==
    /\ pc = "done" /\ keep_best_quality
    /\ duplicate_indices # {}
    /\ output # <<>>

\* The anchors of the greedy assignment among the indices 0..(n - 1): an
\* index opens a group iff no earlier anchor meets the threshold against it.
RECURSIVE GreedyAnchors(_)
GreedyAnchors(n) ==
    IF n = 0 THEN {}
    ELSE LET prev == GreedyAnchors(n - 1)
         IN  IF \E i \in prev : Similar(i, n - 1) THEN prev ELSE prev \cup {n - 1}

\* The group the greedy assignment forms for anchor a of the anchor set:
\* a and every later non-anchor whose lowest earlier anchor meeting the
\* threshold is a.
GreedyGroup(anchors, a) ==
    {a} \cup
    { j \in (a + 1)..(n_records - 1) :
        /\ j \notin anchors
        /\ Similar(a, j)
        /\ \A i \in anchors : (i < a) => ~Similar(i, j) }

\* C19. find_pcr_duplicates returns exactly the greedy anchor assignment:
\* the returned groups are, in ascending anchor order, the greedy groups
\* with more than one member, each listed anchor first and then its members
\* in ascending order, `>=` being the comparison.
C19_GreedyAnchorAssignment ==
    (tool = "pcr" /\ Clustered) =>
        LET anchors == GreedyAnchors(n_records)
            multi == { a \in anchors : GreedyGroup(anchors, a) # {a} }
        IN  /\ Len(duplicate_clusters) = Cardinality(multi)
            /\ \A k \in 1..Len(duplicate_clusters) :
                 LET c == duplicate_clusters[k]
                 IN  /\ c[1] \in multi
                     /\ Range(c) = GreedyGroup(anchors, c[1])
                     /\ \A m \in 1..(Len(c) - 1) : c[m] < c[m + 1]
                     /\ k > 1 => duplicate_clusters[k - 1][1] < c[1]

\* A batch has been clustered in which a pair that meets the threshold with
\* equality was grouped, and another index opened a group and stayed alone.
C19_Witness ==
    /\ tool = "pcr" /\ pc = "selecting"
    /\ duplicate_clusters # <<>>
    /\ \E k \in 1..Len(duplicate_clusters) :
         \E m \in 2..Len(duplicate_clusters[k]) :
            LET similarity ==
                    calculate_jaccard_similarity(Sig(duplicate_clusters[k][1]),
                                                 Sig(duplicate_clusters[k][m]))
            IN  FGe(similarity, threshold) /\ FGe(threshold, similarity)
    /\ \E i \in 0..(n_records - 1) : i \notin Members(duplicate_clusters)

\* The A, B, C scenario: three records, B meets the threshold against A and
\* against C, C does not meet it against A.
ScenarioABC ==
    /\ n_records = 3
    /\ Similar(0, 1)
    /\ ~Similar(0, 2)
    /\ Similar(1, 2)

\* C20. Clustering is anchor-only and not transitive: every non-anchor
\* member of a group meets the threshold against the group's anchor; an
\* index below the threshold against every earlier anchor joins no earlier
\* group, whatever its similarity to non-anchor members; in the A, B, C
\* scenario the only group is {A, B} and C is kept.
C20_AnchorOnlyNotTransitive ==
    (tool = "pcr" /\ Clustered) =>
        /\ \A k \in 1..Len(duplicate_clusters) :
             \A m \in 2..Len(duplicate_clusters[k]) :
                Similar(duplicate_clusters[k][1], duplicate_clusters[k][m])
        /\ \A j \in 0..(n_records - 1) :
             (\A i \in Anchors : i < j => ~Similar(i, j)) =>
                 \A k \in 1..Len(duplicate_clusters) :
                     \A m \in 2..Len(duplicate_clusters[k]) :
                         duplicate_clusters[k][m] # j
        /\ ScenarioABC =>
             /\ duplicate_clusters = << <<0, 1>> >>
             /\ Selected => 2 \notin duplicate_indices

\* The A, B, C scenario has been clustered and selected.
C20_Witness ==
    /\ tool = "pcr" /\ pc = "create_output"
    /\ ScenarioABC
    /\ duplicate_clusters = << <<0, 1>> >>
    /\ 2 \notin duplicate_indices

\* The groups of an unbatched run: one loop `for i in 0..n_records` over all
\* anchor indices.
UnbatchedClusters(sigs, t) ==
    BatchLoop(sigs, t, 0, Len(sigs), [clusters |-> <<>>, assigned |-> {}]).clusters

\* The groups of a run that iterates the anchors in batches of batch_size.
BatchedClusters(sigs, t, batch_size) ==
    StepByLoop(sigs, t, batch_size, 0, [clusters |-> <<>>, assigned |-> {}]).clusters

\* C21 as stated. For every input the groups find_pcr_duplicates returns
\* with its batches of min(1000, n) anchors are the groups, in the same
\* order, of the unbatched loop and of every other positive batch size.
\* (Taken on accepted thresholds in [0.0, 1.0]: the statement already fails
\* there.)
C21_BatchSizeIndependence ==
    (tool = "pcr" /\ InUnit(threshold)) =>
        LET sigs == Signatures(records_with_signatures)
        IN  /\ ~(pc = "panicked" /\ find_pcr_duplicates(sigs, threshold).panic)
            /\ Clustered =>
                 /\ duplicate_clusters = UnbatchedClusters(sigs, threshold)
                 /\ \A b \in 1..(Len(sigs) + 1) :
                      duplicate_clusters = BatchedClusters(sigs, threshold, b)

\* The part of C21 that holds: on a non-empty input the returned groups are
\* those of the unbatched loop and of every positive batch size, batch sizes
\* below the input length included.
C21_NonEmptyBatchSizeIndependence ==
    (tool = "pcr" /\ Clustered) =>
        LET sigs == Signatures(records_with_signatures)
        IN  /\ duplicate_clusters = UnbatchedClusters(sigs, threshold)
            /\ \A b \in 1..(Len(sigs) + 1) :
                 duplicate_clusters = BatchedClusters(sigs, threshold, b)

\* |A \cap B| / |A \cup B| of two sets of hash values, 0 where the quotient
\* is undefined.
JaccardIndex(A, B) ==
    IF A \cup B = {} THEN F64(0, 1)
    ELSE F64(Cardinality(A \cap B), Cardinality(A \cup B))

\* C22. calculate_jaccard_similarity is total and is the Jaccard index of
\* the sets of hash values of the two lists (order and repeated hashes do
\* not matter), 0.0 when a list is empty, and a value in [0.0, 1.0]; the
\* pair is grouped exactly when that index meets the threshold.
C22_JaccardIndex ==
    (tool = "pcr" /\ n_records = 2 /\ Clustered) =>
        LET similarity == calculate_jaccard_similarity(Sig(0), Sig(1))
            index == JaccardIndex(Range(Sig(0)), Range(Sig(1)))
        IN  /\ similarity.ok /\ ~similarity.nan /\ similarity.den > 0
            /\ similarity.num * index.den = index.num * similarity.den
            /\ (Sig(0) = <<>> \/ Sig(1) = <<>>) => similarity.num = 0
            /\ 0 <= similarity.num /\ similarity.num <= similarity.den
            /\ (duplicate_clusters = << <<0, 1>> >>) <=> FGe(index, threshold)
            /\ duplicate_clusters \in { <<>>, << <<0, 1>> >> }

\* A pair has been grouped under threshold 1.0 whose lists differ in order
\* and in a repeated hash value.
C22_Witness ==
    /\ tool = "pcr" /\ pc = "selecting" /\ n_records = 2
    /\ threshold = F64(1, 1)
    /\ duplicate_clusters = << <<0, 1>> >>
    /\ Len(Sig(0)) # Len(Sig(1))
    /\ Sig(0)[1] # Sig(1)[1]
    /\ Cardinality(Range(Sig(0))) < Len(Sig(0))

\* Fingerprint extraction failed for the record.
ExtractionFailed(record) ==
    IF tool = "pcr" THEN ~record.sequence.ok ELSE ~record.id.ok

\* C23. Index alignment: at every point of a run the item/fingerprint list
\* has one entry per record read so far, in input order; its length is
\* total_reads; entry k is the k-th input record with its own fingerprint;
\* a record whose extraction failed is in the list at its place with the
\* empty (pcr) or default (optical) fingerprint.
C23_IndexAlignment ==
    /\ n_records = total_reads
    /\ n_records = Len(stream_read)
    /\ \A k \in 1..n_records :
         LET entry == records_with_signatures[k]
         IN  /\ entry.record = stream_read[k]
             /\ IF ExtractionFailed(stream_read[k])
                THEN entry.sig = IF tool = "pcr"
                                 THEN <<>>
                                 ELSE [lane |-> 0, tile |-> 0, x |-> 0, y |-> 0]
                ELSE entry.sig = IF tool = "pcr"
                                 THEN stream_read[k].sequence.hashes
                                 ELSE [lane |-> stream_read[k].id.lane,
                                       tile |-> stream_read[k].id.tile,
                                       x |-> stream_read[k].id.x,
                                       y |-> stream_read[k].id.y]

\* A run has ended its read loop without error after a record whose
\* extraction failed was read between two records whose extraction succeeded.
C23_Witness ==
    /\ pc = "clustering"
    /\ n_records = 3
    /\ ~ExtractionFailed(stream_read[1])
    /\ ExtractionFailed(stream_read[2])
    /\ ~ExtractionFailed(stream_read[3])

\* The stage a position of the run belongs to: 0 argument handling,
\* 1 Extract, 2 Cluster, 3 Select, 4 Filter, 5 Report done, 6 aborted.
StageOf(p) ==
    CASE p \in {"start", "validate"}        -> 0
      [] p = "reading"                      -> 1
      [] p = "clustering"                   -> 2
      [] p = "selecting"                    -> 3
      [] p \in {"create_output", "writing"} -> 4
      [] p = "done"                         -> 5
      [] OTHER                              -> 6

\* C24. Single pass: every step stays in its stage, moves to the next stage
\* or aborts, and no step leaves Report or an aborted run; records are read
\* only in Extract and before any output, groups are set only in Cluster,
\* removals and representatives only in Select, output records are written
\* only in Filter, and the statistics report is written once, by the step
\* that follows the last iteration of the output loop.
C24_SinglePassStages ==
    [][ /\ StageOf(pc) < 5
        /\ StageOf(pc') \in {StageOf(pc), StageOf(pc) + 1, 6}
        /\ stream_read' # stream_read => (StageOf(pc) = 1 /\ output = <<>>)
        /\ duplicate_clusters' # duplicate_clusters => StageOf(pc) = 2
        /\ duplicate_indices' # duplicate_indices => StageOf(pc) = 3
        /\ representatives' # representatives => StageOf(pc) = 3
        /\ output' # output =>
               /\ StageOf(pc) = 4
               /\ stats_file = <<>>
               /\ Len(stream_read) = total_reads
        /\ stats_file' # stats_file =>
               /\ stats_file = <<>> /\ Len(stats_file') = 1
               /\ pc = "writing" /\ pc' = "done"
               /\ write_pos = Len(records_with_signatures)
      ]_vars

\* A first-occurrence run is done: it removed a record, wrote two and wrote
\* its statistics report.
C24_Witness ==
    /\ pc = "done" /\ ~keep_best_quality
    /\ duplicate_indices # {}
    /\ Len(output) = 2
    /\ Len(stats_file) = 1

\* The stepwise run returns what find_pcr_duplicates returns.
ScanAgreesWithFunction ==
    LET r == find_pcr_duplicates(Signatures(records_with_signatures), threshold)
    IN  /\ scan.phase = "panicked" => r.panic
        /\ scan.phase = "returned" => (~r.panic /\ duplicate_clusters = r.clusters)

\* Every similarity evaluation so far was of a pair i < j with i the anchor
\* of the group being built and j unassigned, no unordered pair was
\* evaluated twice, the evaluations came in ascending order of (i, j), and
\* no index was assigned when it opened a group.
ComparedOnce ==
    scan.phase \in {"batch", "anchor", "inner", "returned"} =>
        /\ \A p \in 1..Len(scan.compared) :
             LET e == scan.compared[p]
             IN  /\ e.i < e.j
                 /\ e.j \notin e.assigned
                 /\ e.i \in e.assigned
                 /\ \E q \in 1..Len(scan.opened) : scan.opened[q].i = e.i
                 /\ \A q \in 1..Len(scan.compared) :
                      (q # p) =>
                          {scan.compared[q].i, scan.compared[q].j} # {e.i, e.j}
                 /\ \A q \in 1..(p - 1) :
                      \/ scan.compared[q].i < e.i
                      \/ (scan.compared[q].i = e.i /\ scan.compared[q].j < e.j)
        /\ \A q \in 1..Len(scan.opened) :
             scan.opened[q].i \notin scan.opened[q].assigned

\* C27. find_pcr_duplicates terminates on every batch, and while it runs
\* each unordered pair {i, j} is evaluated at most once, only with i the
\* anchor and j unassigned; an assigned index never opens a group and is
\* never compared again.
C27_TerminatesComparingOnce ==
    /\ []ComparedOnce
    /\ <>(scan.phase \in {"returned", "panicked"})

\* The function has returned a group for a batch of three records and has
\* spared an evaluation: the grouped member was not compared again.
C27_Witness ==
    /\ scan.phase = "returned"
    /\ Len(records_with_signatures) = 3
    /\ duplicate_clusters # <<>>
    /\ Len(scan.compared) = 2
    /\ Len(scan.opened) = 2

\* The length of the run of G/g bases the sequence ends with.
RECURSIVE TrailingGs(_)
TrailingGs(sequence) ==
    IF sequence = <<>> \/ ~IsG(sequence[Len(sequence)]) THEN 0
    ELSE 1 + TrailingGs(SubSeq(sequence, 1, Len(sequence) - 1))

\* C25 as stated. trim_polyg_tail trims only a poly-G tail at the 3' end:
\* what it returns is a prefix of the read and of its quality, of equal
\* lengths, with returned length + trim_length = original length; bases are
\* removed only when the read ends with at least min_polyg_length G/g, the
\* removed bases are all G/g, and a read that does not end with G/g is
\* returned untrimmed.
C25_TrimsOnlyTrailingPolyG ==
    (tool = "polyg" /\ stream_read # <<>>) =>
        LET record == stream_read[Len(stream_read)]
            orig == record.sequence
            r == trimmer.last
            n == Len(r.sequence)
        IN  /\ Len(r.quality) = n
            /\ n + r.trim_length = Len(orig)
            /\ r.sequence = SubSeq(orig, 1, n)
            /\ r.quality = SubSeq(record.quality, 1, n)
            /\ r.trim_length > 0 => TrailingGs(orig) >= trimmer.min_polyg_length
            /\ \A k \in (n + 1)..Len(orig) : IsG(orig[k])
            /\ TrailingGs(orig) = 0 => r.trim_length = 0

\* The part of C25 that holds: the result is a prefix of the read and of
\* its quality, of equal lengths, and returned length + trim_length is the
\* original length; a read that ends with at least min_polyg_length G/g is
\* trimmed by at least that run.
C25_TrimIsPrefix ==
    (tool = "polyg" /\ stream_read # <<>>) =>
        LET record == stream_read[Len(stream_read)]
            orig == record.sequence
            r == trimmer.last
            n == Len(r.sequence)
        IN  /\ Len(r.quality) = n
            /\ n + r.trim_length = Len(orig)
            /\ r.sequence = SubSeq(orig, 1, n)
            /\ r.quality = SubSeq(record.quality, 1, n)
            /\ TrailingGs(orig) >= trimmer.min_polyg_length =>
                   r.trim_length >= TrailingGs(orig)

\* The indices that are not in the removal set.
Survivors == { i \in 0..(n_records - 1) : i \notin duplicate_indices }

\* C26 as stated. Under the first-occurrence policy the survivors of a
\* pcr_dedup run are exactly the anchors, and every two distinct survivors
\* have a similarity strictly below the threshold.
C26_SurvivorsAreDissimilarAnchors ==
    (tool = "pcr" /\ ~keep_best_quality /\ Selected) =>
        /\ Survivors = GreedyAnchors(n_records)
        /\ \A i, j \in Survivors :
             (i < j) => FLt(calculate_jaccard_similarity(Sig(i), Sig(j)), threshold)

\* The part of C26 that holds: the survivors are exactly the anchors and no
\* two distinct survivors meet the threshold (`similarity >= threshold` is
\* false for them).
C26_SurvivorsAreAnchors ==
    (tool = "pcr" /\ ~keep_best_quality /\ Selected) =>
        /\ Survivors = GreedyAnchors(n_records)
        /\ \A i, j \in Survivors : (i < j) => ~Similar(i, j)

\* C28. Conservation of the reported counts: total_reads = unique_reads_kept
\* + duplicates_found, duplicates_found is the size of the removal set and
\* the sum over the groups of (size - 1), and unique_reads_kept is the
\* number of records written.
C28_CountsConserved ==
    pc = "done" =>
        LET stats == stats_file[1]
        IN  /\ stats.total_reads = stats.unique_reads_kept + stats.duplicates_found
            /\ stats.duplicates_found = Cardinality(duplicate_indices)
            /\ stats.duplicates_found =
                   TotalSize(duplicate_clusters) - Len(duplicate_clusters)
            /\ stats.unique_reads_kept = Len(output)
            /\ stats.total_reads = Len(stream_read)

\* A run has reported after removing a record from its output.
C28_Witness ==
    /\ pc = "done"
    /\ stats_file[1].duplicates_found > 0
    /\ stats_file[1].unique_reads_kept > 0
    /\ stats_file[1].total_reads = 3

====
